---- MODULE Spec2Model ----
(***************************************************************************)
(* Logistics and pricing calculator of SiamAI                              *)
(* (src/components/LogisticsCalculator.tsx, the six-market component that  *)
(* starts at line 340) together with the part of App.tsx that mounts it    *)
(* and hands it the current market.                                        *)
(*                                                                         *)
(* Numbers.  The component computes with IEEE-754 doubles.  The model      *)
(* computes with exact rationals <<n, d>> (d > 0, lowest terms).  A double *)
(* differs from the exact value by a rounding error far smaller than any   *)
(* gap between the values met here, so it matters only where the exact     *)
(* value sits on a decision point:                                         *)
(*  - `divisor > 0.05` when fee + margin is exactly 95 percent: modelled   *)
(*    by the table FpDivisorAbove of what the double comparison yields;    *)
(*  - toFixed at an exact tie and Math.ceil(x / 100) at an exact multiple  *)
(*    of 100: modelled as a choice between the two neighbouring results.   *)
(* Math.ceil(chargeWeightKg * 1000 / 10) yields the exact ceiling for      *)
(* every input value of this model.                                        *)
(***************************************************************************)
EXTENDS Integers, Sequences, FiniteSets, TLC

(***************************************************************************)
(* Exact rational arithmetic                                               *)
(***************************************************************************)
Abs(x) == IF x < 0 THEN -x ELSE x

RECURSIVE GCD(_, _)
GCD(a, b) == IF b = 0 THEN a ELSE GCD(b, a % b)

\* the rational n/d in lowest terms with a positive denominator (d # 0)
Rat(n, d) ==
    LET g == GCD(Abs(n), Abs(d))
        s == IF d < 0 THEN -1 ELSE 1
    IN  <<(s * n) \div g, (s * d) \div g>>

RInt(n) == <<n, 1>>
RAdd(p, q) == Rat(p[1] * q[2] + q[1] * p[2], p[2] * q[2])
RSub(p, q) == Rat(p[1] * q[2] - q[1] * p[2], p[2] * q[2])
\* p and q in lowest terms: cancelling crosswise leaves the product in lowest terms
RMul(p, q) ==
    LET g1 == GCD(Abs(p[1]), q[2])
        g2 == GCD(Abs(q[1]), p[2])
    IN  <<(p[1] \div g1) * (q[1] \div g2), (p[2] \div g2) * (q[2] \div g1)>>
RDiv(p, q) == RMul(p, IF q[1] < 0 THEN <<-q[2], -q[1]>> ELSE <<q[2], q[1]>>)
RLt(p, q) == p[1] * q[2] < q[1] * p[2]
RLe(p, q) == p[1] * q[2] <= q[1] * p[2]
RMax(p, q) == IF RLt(p, q) THEN q ELSE p

\* Math.ceil
Ceil(p) == -((-p[1]) \div p[2])

\* parseFloat(x.toFixed(k)) of a double x whose exact value is p, scale = 10^k:
\* the nearest multiple of 1/scale.  When p lies exactly half way between two
\* of them the double x lies on either side (or on the tie, which toFixed
\* rounds away from zero), so both neighbours are possible results.
ToFixedOutcomes(p, scale) ==
    LET n    == Abs(p[1]) * scale
        d    == p[2]
        sign == IF p[1] < 0 THEN -1 ELSE 1
        up   == (2 * n + d) \div (2 * d)
    IN  IF (2 * n + d) % (2 * d) = 0
        THEN {Rat(sign * up, scale), Rat(sign * (up - 1), scale)}
        ELSE {Rat(sign * up, scale)}

\* Math.ceil(x / 100) * 100 of a double x whose exact value is p: the least
\* multiple of 100 that is >= p, and also the next one when p is itself a
\* multiple of 100 (the double x may lie just above it)
CeilHundredOutcomes(p) ==
    LET q == RDiv(p, <<100, 1>>)
        m == Ceil(q) * 100
    IN  IF q[2] = 1 THEN {<<m, 1>>, <<m + 100, 1>>} ELSE {<<m, 1>>}

(***************************************************************************)
(* Static data of the component                                            *)
(***************************************************************************)
\* types.ts: TargetMarket
TargetMarkets == {"TH", "PH", "VN", "MY", "SG", "ID"}

\* the market buttons App's header offers
SwitcherMarkets == {"PH", "TH"}

\* a market value that no table of the component lists
UnconfiguredMarket == "XX"

\* AppMode
AppModes == {"ANALYSIS", "LIVE_AGENT", "HERO_DESIGN", "IMAGE_EDIT", "VEO_VIDEO", "CALCULATOR"}

\* LOGISTICS_OPTIONS ids
ChannelIds == {"standard", "land", "air", "sea"}
BulkChannels == {"land", "air", "sea"}

\* the zone state's type
Zones == {"A", "B", "C", "D"}

\* RATES: local-currency units per 1 CNY
RATES(m) ==
    CASE m = "TH" -> Rat(5, 1)
      [] m = "PH" -> Rat(8, 1)
      [] m = "VN" -> Rat(3500, 1)
      [] m = "MY" -> Rat(65, 100)
      [] m = "SG" -> Rat(19, 100)
      [] m = "ID" -> Rat(2200, 1)

\* const exchangeRate = RATES[market] || 5.0
exchangeRate(m) == IF m \in TargetMarkets THEN RATES(m) ELSE Rat(5, 1)

\* getZoneHeaders: the number of zone columns / zone buttons of a market
ZoneHeaderCount(m) ==
    CASE m = "TH" -> 3
      [] m = "PH" -> 2
      [] m = "VN" -> 3
      [] m = "MY" -> 2
      [] m = "SG" -> 1
      [] m = "ID" -> 2
      [] OTHER    -> 1

\* the zone code the idx-th zone button sets (mappedCode)
MappedCode(m, idx) ==
    IF m = "VN" /\ idx = 1 THEN "B"
    ELSE IF m = "VN" /\ idx = 2 THEN "D"
    ELSE CASE idx = 0 -> "A" [] idx = 1 -> "B" [] idx = 2 -> "C" [] OTHER -> "D"

\* the zone codes the zone selector of market m can set
SelectableZones(m) == {MappedCode(m, idx) : idx \in 0..(ZoneHeaderCount(m) - 1)}

\* the zones of a market: those its selector offers, and for VN also C, which
\* the VN tariff and the VN highlighting name together with B ("Zone B/C")
ValidZones(m) == SelectableZones(m) \cup (IF m = "VN" THEN {"C"} ELSE {})

(***************************************************************************)
(* calculate(): weight                                                     *)
(***************************************************************************)
\* const volWeight = (length * width * height) / 6000
\* a variant dividing by the courier divisor 5000 instead of 6000
VolWeightPer5000(length, width, height) == Rat(length * width * height, 5000)

VolWeight(length, width, height) == Rat(length * width * height, 6000)

\* a variant that validates: no chargeable weight below zero
ChargeWeightKgNotNegative(weightKg, volWeight) ==
    RMax(RMax(weightKg, volWeight), RInt(0))

\* const chargeWeightKg = Math.max(weightKg, volWeight)
ChargeWeightKg(weightKg, volWeight) == RMax(weightKg, volWeight)

\* The weights n / 100 kg, n in 0..1600, for which the double evaluation of
\* chargeWeightKg * 1000 / 10 lands above n (4.03 * 1000 is 4030.0000000000005),
\* so that Math.ceil returns n + 1.  Every weight of the model is below 16 kg.
FpCeilAbove == {403, 407, 805, 806, 813, 814}

\* const chargeWeightG = Math.ceil(chargeWeightKg * 1000 / 10) * 10
ChargeWeightG(chargeWeightKg) ==
    LET tenGrams == RDiv(RMul(chargeWeightKg, RInt(1000)), RInt(10))
    IN  IF tenGrams[2] = 1 /\ tenGrams[1] \in FpCeilAbove
        THEN (tenGrams[1] + 1) * 10
        ELSE Ceil(tenGrams) * 10

\* const units = chargeWeightG / 10
\* a unit step taken to be 100 g instead of 10 g
UnitsPerHundredGrams(chargeWeightG) == chargeWeightG \div 100

Units(chargeWeightG) == chargeWeightG \div 10

(***************************************************************************)
(* calculate(): shipping                                                   *)
(***************************************************************************)
\* base + (addOn > 0 ? addOn : 0), addOn = (units - 1) * stepPrice
\* a variant that charges the add-on from the third step on
BasePlusAddOnAfterTwo(base, stepPrice, units) ==
    LET addOn == RMul(RInt(units - 2), stepPrice)
    IN  RAdd(base, IF RLt(RInt(0), addOn) THEN addOn ELSE RInt(0))

\* a variant with the sign of the add-on slipped
BaseMinusAddOn(base, stepPrice, units) ==
    LET addOn == RMul(RInt(units - 1), stepPrice)
    IN  RSub(base, IF RLt(RInt(0), addOn) THEN addOn ELSE RInt(0))

BasePlusAddOn(base, stepPrice, units) ==
    LET addOn == RMul(RInt(units - 1), stepPrice)
    IN  RAdd(base, IF RLt(RInt(0), addOn) THEN addOn ELSE RInt(0))

\* the standard-channel branch: the market chain of if / else if, the last
\* else ("ID Logic (Generic)") taking every market the chain does not name
StandardShippingLocal(market, zone, units) ==
    IF market = "TH" THEN
        LET buyerFee == IF zone = "A" THEN 23 ELSE (IF zone = "B" THEN 36 ELSE 79)
        IN  RInt(buyerFee + units * 1)
    ELSE IF market = "PH" THEN
        LET buyerFee == IF zone = "A" THEN 40 ELSE 60
        IN  RAdd(RInt(buyerFee), RMul(RInt(units), Rat(45, 10)))
    ELSE IF market = "VN" THEN
        LET base == IF zone = "D" THEN 30900
                    ELSE IF zone = "B" \/ zone = "C" THEN 17900 ELSE 15900
        IN  BasePlusAddOn(RInt(base), RInt(900), units)
    ELSE IF market = "MY" THEN
        LET base == IF zone = "B" THEN Rat(815, 100) ELSE Rat(465, 100)
        IN  BasePlusAddOn(base, Rat(15, 100), units)
    ELSE IF market = "SG" THEN
        BasePlusAddOn(Rat(150, 100), Rat(15, 100), units)
    ELSE
        LET base == IF zone # "A" THEN 20000 ELSE 10000
        IN  BasePlusAddOn(RInt(base), RInt(1000), units)

\* rates: CNY per kg of the bulk channels
BulkRates(m) ==
    CASE m = "TH" -> [land |-> 6,  air |-> 25, sea |-> 3]
      [] m = "PH" -> [land |-> 8,  air |-> 35, sea |-> 5]
      [] m = "VN" -> [land |-> 4,  air |-> 18, sea |-> 2]
      [] m = "MY" -> [land |-> 7,  air |-> 28, sea |-> 4]
      [] m = "SG" -> [land |-> 8,  air |-> 30, sea |-> 5]
      [] m = "ID" -> [land |-> 10, air |-> 40, sea |-> 6]

\* const mRates = rates[market] || rates.TH, then the three ifs on the channel
\* (pricePerKg stays 0 for any other channel id)
PricePerKg(market, selectedLogisticId) ==
    LET mRates == IF market \in TargetMarkets THEN BulkRates(market) ELSE BulkRates("TH")
    IN  CASE selectedLogisticId = "land" -> mRates.land
          [] selectedLogisticId = "air"  -> mRates.air
          [] selectedLogisticId = "sea"  -> mRates.sea
          [] OTHER                       -> 0

\* let minWeight = selectedLogisticId === 'sea' ? 10 : 0.1
MinWeight(selectedLogisticId) ==
    IF selectedLogisticId = "sea" THEN Rat(10, 1) ELSE Rat(1, 10)

\* a variant that bills the chargeable weight with no minimum
FinalWeightNoMinimum(chargeWeightKg, selectedLogisticId) == chargeWeightKg

\* let finalWeight = chargeWeightKg < minWeight ? minWeight : chargeWeightKg
FinalWeight(chargeWeightKg, selectedLogisticId) ==
    IF RLt(chargeWeightKg, MinWeight(selectedLogisticId))
    THEN MinWeight(selectedLogisticId) ELSE chargeWeightKg

\* shippingCNY of the bulk branch
BulkShippingCNY(market, selectedLogisticId, chargeWeightKg) ==
    RMul(FinalWeight(chargeWeightKg, selectedLogisticId),
         RInt(PricePerKg(market, selectedLogisticId)))

\* a variant whose bulk branch adds a remote-zone surcharge of 1 CNY
ShippingZoneSurcharge(market, selectedLogisticId, zone, chargeWeightKg, units) ==
    IF selectedLogisticId = "standard"
    THEN LET shippingLocal == StandardShippingLocal(market, zone, units)
         IN  <<shippingLocal, RDiv(shippingLocal, exchangeRate(market))>>
    ELSE LET shippingCNY ==
                 RAdd(BulkShippingCNY(market, selectedLogisticId, chargeWeightKg),
                      RInt(IF zone = "A" THEN 0 ELSE 1))
         IN  <<RMul(shippingCNY, exchangeRate(market)), shippingCNY>>

\* <<shippingLocal, shippingCNY>> of both branches
Shipping(market, selectedLogisticId, zone, chargeWeightKg, units) ==
    IF selectedLogisticId = "standard"
    THEN LET shippingLocal == StandardShippingLocal(market, zone, units)
         IN  <<shippingLocal, RDiv(shippingLocal, exchangeRate(market))>>
    ELSE LET shippingCNY == BulkShippingCNY(market, selectedLogisticId, chargeWeightKg)
         IN  <<RMul(shippingCNY, exchangeRate(market)), shippingCNY>>

(***************************************************************************)
(* calculate(): pricing                                                    *)
(***************************************************************************)
\* const divisor = 1 - feeDecimal - marginDecimal (the exact value)
Divisor(platformFeePercent, targetMargin) ==
    Rat(100 - platformFeePercent - targetMargin, 100)

\* The fee percentages f in 0..100 for which the double evaluation of
\* 1 - f/100 - (95 - f)/100 > 0.05 is true (the exact value is 0.05 for every
\* f; the doubles land on either side of the double 0.05, two land on it).
FpDivisorAbove ==
    {0, 1, 8, 9, 10, 11, 12, 13, 18, 19, 20, 21, 22, 23, 24, 25, 26, 35, 36, 37,
     38, 41, 42, 43, 44, 45, 46, 47, 48, 57, 58, 59, 60, 69, 70, 71, 72, 73, 74,
     82, 83, 84, 85, 86, 94, 95, 96, 97, 98, 99}

\* if (divisor > 0.05), as the double comparison decides it
DivisorAboveThreshold(platformFeePercent, targetMargin) ==
    IF platformFeePercent + targetMargin = 95
    THEN platformFeePercent \in FpDivisorAbove
    ELSE RLt(Rat(5, 100), Divisor(platformFeePercent, targetMargin))

\* a variant that clamps the margin at zero
SellingPriceCNYMarginClamped(totalBaseCostCNY, platformFeePercent, targetMargin) ==
    LET margin == IF targetMargin < 0 THEN 0 ELSE targetMargin
    IN  IF DivisorAboveThreshold(platformFeePercent, margin)
        THEN RDiv(totalBaseCostCNY, Divisor(platformFeePercent, margin))
        ELSE RMul(totalBaseCostCNY, RInt(2))

\* a variant with the threshold mistyped as 0.5
SellingPriceCNYThresholdHalf(totalBaseCostCNY, platformFeePercent, targetMargin) ==
    IF RLt(Rat(5, 10), Divisor(platformFeePercent, targetMargin))
    THEN RDiv(totalBaseCostCNY, Divisor(platformFeePercent, targetMargin))
    ELSE RMul(totalBaseCostCNY, RInt(2))

\* a variant that multiplies by the divisor instead of dividing by it
SellingPriceCNYTimesDivisor(totalBaseCostCNY, platformFeePercent, targetMargin) ==
    IF DivisorAboveThreshold(platformFeePercent, targetMargin)
    THEN RMul(totalBaseCostCNY, Divisor(platformFeePercent, targetMargin))
    ELSE RMul(totalBaseCostCNY, RInt(2))

\* sellingPriceCNY = totalBaseCostCNY / divisor, else totalBaseCostCNY * 2
SellingPriceCNY(totalBaseCostCNY, platformFeePercent, targetMargin) ==
    IF DivisorAboveThreshold(platformFeePercent, targetMargin)
    THEN RDiv(totalBaseCostCNY, Divisor(platformFeePercent, targetMargin))
    ELSE RMul(totalBaseCostCNY, RInt(2))

\* a variant taking the margin on the price net of the margin itself (a markup
\* on what is left, not a share of the selling price)
ProfitOnNetPrice(sellingPriceCNY, targetMargin) ==
    RMul(RMul(sellingPriceCNY, Rat(100 - targetMargin, 100)), Rat(targetMargin, 100))

\* const profitCNY = sellingPriceCNY * marginDecimal
ProfitCNY(sellingPriceCNY, targetMargin) ==
    RMul(sellingPriceCNY, Rat(targetMargin, 100))

\* calculate() on the inputs in, up to its call of setResults: every local it
\* computes
calculate(in) ==
    LET volWeight        == VolWeight(in.length, in.width, in.height)
        chargeWeightKg   == ChargeWeightKg(in.weightKg, volWeight)
        chargeWeightG    == ChargeWeightG(chargeWeightKg)
        units            == Units(chargeWeightG)
        ship             == Shipping(in.market, in.selectedLogisticId, in.zone,
                                     chargeWeightKg, units)
        shippingLocal    == ship[1]
        shippingCNY      == ship[2]
        totalBaseCostCNY == RAdd(RInt(in.costCNY), shippingCNY)
        sellingPriceCNY  == SellingPriceCNY(totalBaseCostCNY, in.platformFeePercent,
                                            in.targetMargin)
        sellingPriceLocal == RMul(sellingPriceCNY, exchangeRate(in.market))
        profitCNY        == ProfitCNY(sellingPriceCNY, in.targetMargin)
    IN  [ ran              |-> TRUE,
          in               |-> in,
          volWeight        |-> volWeight,
          chargeWeightKg   |-> chargeWeightKg,
          chargeWeightG    |-> chargeWeightG,
          units            |-> units,
          shippingLocal    |-> shippingLocal,
          shippingCNY      |-> shippingCNY,
          totalBaseCostCNY |-> totalBaseCostCNY,
          fallback         |-> ~DivisorAboveThreshold(in.platformFeePercent, in.targetMargin),
          sellingPriceCNY  |-> sellingPriceCNY,
          sellingPriceLocal |-> sellingPriceLocal,
          profitCNY        |-> profitCNY ]

\* suggestedPriceLocal of setResults
SuggestedPriceLocalOutcomes(market, sellingPriceLocal) ==
    IF market = "VN" \/ market = "ID"
    THEN CeilHundredOutcomes(sellingPriceLocal)
    ELSE ToFixedOutcomes(sellingPriceLocal, 100)

\* setResults({...}): the objects the run c of calculate() can store
SetResultsOutcomes(c) ==
    [ volumetricWeight    : ToFixedOutcomes(c.volWeight, 1000),
      chargeableWeight    : ToFixedOutcomes(c.chargeWeightKg, 1000),
      shippingCostLocal   : ToFixedOutcomes(c.shippingLocal, 100),
      shippingCostCNY     : ToFixedOutcomes(c.shippingCNY, 100),
      totalCostCNY        : ToFixedOutcomes(c.totalBaseCostCNY, 100),
      suggestedPriceLocal : SuggestedPriceLocalOutcomes(c.in.market, c.sellingPriceLocal),
      netProfitCNY        : ToFixedOutcomes(c.profitCNY, 100) ]

(***************************************************************************)
(* State                                                                   *)
(***************************************************************************)
VARIABLES
    activeMode,          \* App: the tab shown; the calculator is mounted iff CALCULATOR
    currentMarket,       \* App: the market handed to the calculator as its market prop
    costCNY,             \* calculator inputs (useState)
    weightKg,
    length,
    width,
    height,
    targetMargin,
    platformFeePercent,
    selectedLogisticId,
    zone,
    results,             \* the results state
    pendingEffect,       \* the last render changed a dependency of the recompute
                         \* effect, which has not run yet
    calc,                \* the locals of the last run of calculate()
    contextData          \* App: analysisResult, handed down as contextData
                         \* (here: whether it holds priceData, and the prices)

\* App: user, history and the product image with its analysis
VARIABLES
    currentUser,         \* the logged-in user, or NoUser
    history,             \* the history list, newest first
    selectedImage,       \* the product image, or NoImage
    isAnalyzing,
    analysis,            \* the handleAnalyze call awaiting analyzeProduct, with
                         \* what its closure captured, or NoRequest
    analysisOrigin       \* the image and the market analysisResult was
                         \* produced for (NoOrigin while it is null)

\* App: video and batch image generation
VARIABLES
    aistudio,            \* the methods window.aistudio offers ({} if absent)
    isGeneratingVideo,
    generatedVideoUrl,
    videoRuns,           \* the invocations of handleGenerateVideo
    isBatchGenerating,
    batchImages,
    assets,
    batchRuns            \* the invocations of handleBatchGenerate

\* LiveAgent: the chat
VARIABLES
    messages,
    isTyping,
    sends                \* the invocations of handleSend

calcVars == <<costCNY, weightKg, length, width, height, targetMargin,
              platformFeePercent, selectedLogisticId, zone, results,
              pendingEffect, calc>>

sessionVars == <<currentUser, history, selectedImage, isAnalyzing, analysis,
                 analysisOrigin>>

videoVars == <<aistudio, isGeneratingVideo, generatedVideoUrl, videoRuns>>

batchVars == <<isBatchGenerating, batchImages, assets, batchRuns>>

appVars == <<sessionVars, videoVars, batchVars>>

chatVars == <<messages, isTyping, sends>>

vars == <<activeMode, currentMarket, costCNY, weightKg, length, width, height,
          targetMargin, platformFeePercent, selectedLogisticId, zone, results,
          pendingEffect, calc, contextData, appVars, chatVars>>

(***************************************************************************)
(* Input values the model draws from                                       *)
(***************************************************************************)
\* lengths typed into the length field: 0, 10, ... , 10 * MaxLenSteps cm
MaxLenSteps == 1

CostValues   == {0, 20}
WeightValues == {Rat(0, 1), Rat(1, 10)}
LengthValues == {10 * i : i \in 0..MaxLenSteps}
WidthValues  == {10, 30}
HeightValues == {5, 10}
FeeValues    == {8, 30}
\* with the fees: a divisor above 0.05 and one of exactly 0.05 (30 + 65)
MarginValues == {30, 65}
\* and also: a divisor of 0 (30 + 70), a negative one (30 + 87) and the other
\* divisor of exactly 0.05 (8 + 87)
WideMarginValues == {30, 65, 70, 87}

\* values outside the ranges a seller means: a negative weight, a weight of
\* 4.03 kg (a multiple of 10 g that the doubles carry past), a negative and a
\* zero length, negative margins, a margin and a fee above 100
EdgeWeightValues == {Rat(-1, 10), Rat(1, 10), Rat(403, 100)}
EdgeLengthValues == {-10, 0, 10}
EdgeMarginValues == {-10, -5, 30, 120}
EdgeFeeValues    == {8, 150}

\* useState(...) initial values of the component
InitialInputs ==
    [ costCNY |-> 20, weightKg |-> Rat(1, 10), length |-> 10, width |-> 10,
      height |-> 5, targetMargin |-> 30, platformFeePercent |-> 8,
      selectedLogisticId |-> "standard", zone |-> "A" ]

InitialResults ==
    [ volumetricWeight |-> RInt(0), chargeableWeight |-> RInt(0),
      shippingCostLocal |-> RInt(0), shippingCostCNY |-> RInt(0),
      totalCostCNY |-> RInt(0), suggestedPriceLocal |-> RInt(0),
      netProfitCNY |-> RInt(0) ]

\* calculate() has not run since the component was mounted
NoCalc == [ran |-> FALSE]

\* useState<AnalysisData | null>(null): no analysis, hence no priceData
NoContextData == [hasPriceData |-> FALSE, priceData |-> <<>>]

Mounted == activeMode = "CALCULATOR"

\* the inputs calculate() reads in the current render
CurrentInputs ==
    [ costCNY |-> costCNY, weightKg |-> weightKg, length |-> length,
      width |-> width, height |-> height, targetMargin |-> targetMargin,
      platformFeePercent |-> platformFeePercent,
      selectedLogisticId |-> selectedLogisticId, zone |-> zone,
      market |-> currentMarket ]

\* a component that is mounted now, or not mounted, holds its initial state
FreshCalculator ==
    /\ costCNY' = InitialInputs.costCNY
    /\ weightKg' = InitialInputs.weightKg
    /\ length' = InitialInputs.length
    /\ width' = InitialInputs.width
    /\ height' = InitialInputs.height
    /\ targetMargin' = InitialInputs.targetMargin
    /\ platformFeePercent' = InitialInputs.platformFeePercent
    /\ selectedLogisticId' = InitialInputs.selectedLogisticId
    /\ zone' = InitialInputs.zone
    /\ results' = InitialResults
    /\ calc' = NoCalc

InitCalculator ==
    /\ activeMode = "ANALYSIS"
    /\ currentMarket = "PH"
    /\ costCNY = InitialInputs.costCNY
    /\ weightKg = InitialInputs.weightKg
    /\ length = InitialInputs.length
    /\ width = InitialInputs.width
    /\ height = InitialInputs.height
    /\ targetMargin = InitialInputs.targetMargin
    /\ platformFeePercent = InitialInputs.platformFeePercent
    /\ selectedLogisticId = InitialInputs.selectedLogisticId
    /\ zone = InitialInputs.zone
    /\ results = InitialResults
    /\ pendingEffect = FALSE
    /\ calc = NoCalc
    /\ contextData = NoContextData

\* currentUser null, history [], selectedImage null, isAnalyzing false
NoUser == "none"

NoImage == "none"

NoRequest == [pending |-> FALSE]

NoOrigin == [image |-> NoImage, market |-> "none"]

InitSession ==
    /\ currentUser = NoUser
    /\ history = << >>
    /\ selectedImage = NoImage
    /\ isAnalyzing = FALSE
    /\ analysis = NoRequest
    /\ analysisOrigin = NoOrigin

\* generatedVideoUrl null; no invocation of handleGenerateVideo yet
NoUrl == "none"

MaxVideoRuns == 2

\* a render's closure before anything was captured
NoClosure == [user |-> NoUser, image |-> NoImage, market |-> "none"]

\* pc: where the invocation stands; calls: how often it has called
\* generateProductVideo; firstError: how the first call failed
IdleVideoRun ==
    [pc |-> "idle", calls |-> 0, firstError |-> "none", outcome |-> "none",
     closure |-> NoClosure]

InitVideo ==
    /\ isGeneratingVideo = FALSE
    /\ generatedVideoUrl = NoUrl
    /\ videoRuns = [i \in 1..MaxVideoRuns |-> IdleVideoRun]

\* batchImages [], assets [], isBatchGenerating false
MaxBatchRuns == 1

IdleBatchRun == [pc |-> "idle"]

InitBatch ==
    /\ isBatchGenerating = FALSE
    /\ batchImages = << >>
    /\ assets = << >>
    /\ batchRuns = [i \in 1..MaxBatchRuns |-> IdleBatchRun]

\* the message the chat (re-)initialisation effect sets; made names the message
\* a list element was created as, shows the message whose content it holds
Greeting == [role |-> "model", made |-> <<"greeting", 0>>, shows |-> <<"greeting", 0>>]

MaxSends == 2

\* pc: where the invocation stands; chunks: the chunks with text received
IdleSend == [pc |-> "idle", chunks |-> 0]

\* LiveAgent is mounted with App and its effect has set the greeting
InitChat ==
    /\ messages = <<Greeting>>
    /\ isTyping = FALSE
    /\ sends = [k \in 1..MaxSends |-> IdleSend]

\* useEffect(..., [contextData, market]): a new chat session and
\* setMessages([greeting])
ResetChat ==
    /\ messages' = <<Greeting>>
    /\ UNCHANGED <<isTyping, sends>>

\* the app in a plain browser: window.aistudio is undefined
Init ==
    /\ InitCalculator
    /\ InitSession
    /\ aistudio = {}
    /\ InitVideo
    /\ InitBatch
    /\ InitChat

(***************************************************************************)
(* Actions.  React runs the effect of a render before it handles the next  *)
(* event, so every event handler waits for ~pendingEffect.                 *)
(***************************************************************************)
\* App sidebar: setActiveMode(mode).  Entering CALCULATOR mounts the
\* component (initial state, effect pending); leaving it unmounts it.
SetActiveMode(mode) ==
    /\ ~pendingEffect
    /\ mode # activeMode
    /\ activeMode' = mode
    /\ UNCHANGED <<currentMarket, contextData, appVars, chatVars>>
    /\ IF mode = "CALCULATOR" \/ activeMode = "CALCULATOR"
       THEN FreshCalculator /\ pendingEffect' = (mode = "CALCULATOR")
       ELSE UNCHANGED <<costCNY, weightKg, length, width, height, targetMargin,
                        platformFeePercent, selectedLogisticId, zone, results,
                        pendingEffect, calc>>

\* App header: setCurrentMarket(m).  market is a dependency of the effect;
\* no state of the calculator is touched.
SetCurrentMarket(m) ==
    /\ ~pendingEffect
    /\ m # currentMarket
    /\ currentMarket' = m
    /\ pendingEffect' = Mounted
    /\ ResetChat
    /\ UNCHANGED appVars
    /\ UNCHANGED <<contextData, activeMode, costCNY, weightKg, length, width, height,
                   targetMargin, platformFeePercent, selectedLogisticId, zone,
                   results, calc>>

SetCostCNY(v) ==
    /\ Mounted /\ ~pendingEffect /\ v # costCNY
    /\ costCNY' = v
    /\ pendingEffect' = TRUE
    /\ UNCHANGED <<appVars, chatVars>>
    /\ UNCHANGED <<contextData, activeMode, currentMarket, weightKg, length, width, height,
                   targetMargin, platformFeePercent, selectedLogisticId, zone,
                   results, calc>>

SetWeightKg(v) ==
    /\ Mounted /\ ~pendingEffect /\ v # weightKg
    /\ weightKg' = v
    /\ pendingEffect' = TRUE
    /\ UNCHANGED <<appVars, chatVars>>
    /\ UNCHANGED <<contextData, activeMode, currentMarket, costCNY, length, width, height,
                   targetMargin, platformFeePercent, selectedLogisticId, zone,
                   results, calc>>

SetLength(v) ==
    /\ Mounted /\ ~pendingEffect /\ v # length
    /\ length' = v
    /\ pendingEffect' = TRUE
    /\ UNCHANGED <<appVars, chatVars>>
    /\ UNCHANGED <<contextData, activeMode, currentMarket, costCNY, weightKg, width, height,
                   targetMargin, platformFeePercent, selectedLogisticId, zone,
                   results, calc>>

SetWidth(v) ==
    /\ Mounted /\ ~pendingEffect /\ v # width
    /\ width' = v
    /\ pendingEffect' = TRUE
    /\ UNCHANGED <<appVars, chatVars>>
    /\ UNCHANGED <<contextData, activeMode, currentMarket, costCNY, weightKg, length, height,
                   targetMargin, platformFeePercent, selectedLogisticId, zone,
                   results, calc>>

SetHeight(v) ==
    /\ Mounted /\ ~pendingEffect /\ v # height
    /\ height' = v
    /\ pendingEffect' = TRUE
    /\ UNCHANGED <<appVars, chatVars>>
    /\ UNCHANGED <<contextData, activeMode, currentMarket, costCNY, weightKg, length, width,
                   targetMargin, platformFeePercent, selectedLogisticId, zone,
                   results, calc>>

SetTargetMargin(v) ==
    /\ Mounted /\ ~pendingEffect /\ v # targetMargin
    /\ targetMargin' = v
    /\ pendingEffect' = TRUE
    /\ UNCHANGED <<appVars, chatVars>>
    /\ UNCHANGED <<contextData, activeMode, currentMarket, costCNY, weightKg, length, width,
                   height, platformFeePercent, selectedLogisticId, zone,
                   results, calc>>

SetPlatformFeePercent(v) ==
    /\ Mounted /\ ~pendingEffect /\ v # platformFeePercent
    /\ platformFeePercent' = v
    /\ pendingEffect' = TRUE
    /\ UNCHANGED <<appVars, chatVars>>
    /\ UNCHANGED <<contextData, activeMode, currentMarket, costCNY, weightKg, length, width,
                   height, targetMargin, selectedLogisticId, zone, results, calc>>

\* a channel button: setSelectedLogisticId(opt.id)
SetSelectedLogisticId(id) ==
    /\ Mounted /\ ~pendingEffect /\ id # selectedLogisticId
    /\ selectedLogisticId' = id
    /\ pendingEffect' = TRUE
    /\ UNCHANGED <<appVars, chatVars>>
    /\ UNCHANGED <<contextData, activeMode, currentMarket, costCNY, weightKg, length, width,
                   height, targetMargin, platformFeePercent, zone, results, calc>>

\* a variant for a dependency list of the effect that lacks zone
SetZoneWithoutEffect(idx) ==
    /\ Mounted /\ ~pendingEffect
    /\ selectedLogisticId = "standard" /\ currentMarket # "SG"
    /\ idx \in 0..(ZoneHeaderCount(currentMarket) - 1)
    /\ MappedCode(currentMarket, idx) # zone
    /\ zone' = MappedCode(currentMarket, idx)
    /\ UNCHANGED <<appVars, chatVars>>
    /\ UNCHANGED <<contextData, activeMode, currentMarket, costCNY, weightKg, length,
                   width, height, targetMargin, platformFeePercent,
                   selectedLogisticId, results, pendingEffect, calc>>

\* a zone button: setZone(mappedCode).  The selector is rendered only for the
\* standard channel and a market other than SG, with the market's buttons.
SetZone(idx) ==
    /\ Mounted /\ ~pendingEffect
    /\ selectedLogisticId = "standard" /\ currentMarket # "SG"
    /\ idx \in 0..(ZoneHeaderCount(currentMarket) - 1)
    /\ MappedCode(currentMarket, idx) # zone
    /\ zone' = MappedCode(currentMarket, idx)
    /\ pendingEffect' = TRUE
    /\ UNCHANGED <<appVars, chatVars>>
    /\ UNCHANGED <<contextData, activeMode, currentMarket, costCNY, weightKg, length, width,
                   height, targetMargin, platformFeePercent, selectedLogisticId,
                   results, calc>>

\* useEffect(() => { calculate(); }, [costCNY, ..., zone, market])
RunEffect ==
    /\ Mounted /\ pendingEffect
    /\ LET c == calculate(CurrentInputs)
       IN  /\ results' \in SetResultsOutcomes(c)
           /\ calc' = c
    /\ pendingEffect' = FALSE
    /\ UNCHANGED <<appVars, chatVars>>
    /\ UNCHANGED <<contextData, activeMode, currentMarket, costCNY, weightKg, length, width,
                   height, targetMargin, platformFeePercent, selectedLogisticId,
                   zone>>

(***************************************************************************)
(* Market comparator: marketStats and the rows the render draws from it    *)
(***************************************************************************)
\* what analysisResult can hold: nothing, an empty priceData, one price,
\* several prices (a price of 0 and the price 612.5 among them)
ContextValues ==
    { NoContextData,
      [hasPriceData |-> TRUE, priceData |-> <<>>],
      [hasPriceData |-> TRUE, priceData |-> <<RInt(100)>>],
      [hasPriceData |-> TRUE, priceData |-> <<RInt(0), Rat(1225, 2), RInt(200)>>] }

\* prices.reduce((a, b) => a + b, 0)
RECURSIVE SumPrices(_)
SumPrices(prices) ==
    IF prices = <<>> THEN RInt(0) ELSE RAdd(Head(prices), SumPrices(Tail(prices)))

\* a variant that divides by one more than the number of prices
MarketStatsOffByOne(context) ==
    IF ~context.hasPriceData \/ Len(context.priceData) = 0
    THEN [shown |-> FALSE]
    ELSE [shown |-> TRUE,
          avg   |-> RDiv(SumPrices(context.priceData), RInt(Len(context.priceData) + 1)),
          items |-> context.priceData]

\* marketStats = useMemo(...): null without priceData or with an empty one,
\* else the mean of the prices and the items
MarketStats(context) ==
    IF ~context.hasPriceData \/ Len(context.priceData) = 0
    THEN [shown |-> FALSE]
    ELSE [shown |-> TRUE,
          avg   |-> RDiv(SumPrices(context.priceData), RInt(Len(context.priceData))),
          items |-> context.priceData]

\* (profitCNY / targetPriceCNY) * 100 as the doubles give it: a division by
\* zero does not throw, it yields NaN for 0 / 0 and an infinity otherwise
MarginPercent(profitCNY, targetPriceCNY) ==
    IF targetPriceCNY[1] # 0
    THEN [kind |-> "finite",
          value |-> RMul(RDiv(profitCNY, targetPriceCNY), RInt(100))]
    ELSE [kind |-> IF profitCNY[1] = 0 THEN "NaN"
                   ELSE IF profitCNY[1] > 0 THEN "Infinity" ELSE "-Infinity",
          value |-> RInt(0)]

\* a variant that leaves the platform fee out of the profit
MarginAtPriceWithoutFee(targetPriceLocal, market, feePercent, totalCostCNY) ==
    LET targetPriceCNY == RDiv(targetPriceLocal, exchangeRate(market))
        profitCNY      == RSub(targetPriceCNY, totalCostCNY)
    IN  [ profitCNY |-> profitCNY,
          marginPercent |-> MarginPercent(profitCNY, targetPriceCNY) ]

\* a variant that takes the fee on the cost instead of on the price
MarginAtPriceFeeOnCost(targetPriceLocal, market, feePercent, totalCostCNY) ==
    LET targetPriceCNY == RDiv(targetPriceLocal, exchangeRate(market))
        feeCNY         == RMul(totalCostCNY, Rat(feePercent, 100))
        profitCNY      == RSub(RSub(targetPriceCNY, totalCostCNY), feeCNY)
    IN  [ profitCNY |-> profitCNY,
          marginPercent |-> MarginPercent(profitCNY, targetPriceCNY) ]

\* the body of calculateMarginAtPrice, on the values its closure reads:
\* exchangeRate (of market), platformFeePercent and results.totalCostCNY
MarginAtPrice(targetPriceLocal, market, feePercent, totalCostCNY) ==
    LET targetPriceCNY == RDiv(targetPriceLocal, exchangeRate(market))
        feeCNY         == RMul(targetPriceCNY, Rat(feePercent, 100))
        profitCNY      == RSub(RSub(targetPriceCNY, totalCostCNY), feeCNY)
    IN  [ profitCNY |-> profitCNY,
          marginPercent |-> MarginPercent(profitCNY, targetPriceCNY) ]

\* calculateMarginAtPrice(targetPriceLocal) in the current render
calculateMarginAtPrice(targetPriceLocal) ==
    MarginAtPrice(targetPriceLocal, currentMarket, platformFeePercent,
                  results.totalCostCNY)

\* the rows of the current render: marketStats.items.map(...), nothing when
\* the component is not mounted or marketStats is null
MarketStatsRows ==
    IF Mounted /\ MarketStats(contextData).shown
    THEN [i \in 1..Len(contextData.priceData) |->
             calculateMarginAtPrice(contextData.priceData[i])]
    ELSE <<>>

\* App: setAnalysisResult(data), when an analysis returns, an image is loaded
\* or a history item is restored.  contextData is no dependency of the effect.
SetAnalysisResult(data) ==
    /\ ~pendingEffect
    /\ data # contextData
    /\ contextData' = data
    /\ ResetChat
    /\ UNCHANGED appVars
    /\ UNCHANGED <<activeMode, currentMarket, costCNY, weightKg, length, width,
                   height, targetMargin, platformFeePercent, selectedLogisticId,
                   zone, results, pendingEffect, calc>>

\* the events of the calculator itself and its effect, the margin field
\* taking the values margins
CalculatorEvent(margins) ==
    \/ \E v \in CostValues   : SetCostCNY(v)
    \/ \E v \in WeightValues : SetWeightKg(v)
    \/ \E v \in LengthValues : SetLength(v)
    \/ \E v \in WidthValues  : SetWidth(v)
    \/ \E v \in HeightValues : SetHeight(v)
    \/ \E v \in margins      : SetTargetMargin(v)
    \/ \E v \in FeeValues    : SetPlatformFeePercent(v)
    \/ \E id \in ChannelIds  : SetSelectedLogisticId(id)
    \/ \E idx \in 0..3       : SetZone(idx)
    \/ RunEffect

\* the calculator under every market of TargetMarket
Next ==
    \/ \E mode \in AppModes   : SetActiveMode(mode)
    \/ \E m \in TargetMarkets : SetCurrentMarket(m)
    \/ CalculatorEvent(MarginValues)

Spec == Init /\ [][Next]_vars

\* the calculator under the markets App's header buttons set, with the wider
\* range of margins
NextApp ==
    \/ \E mode \in AppModes     : SetActiveMode(mode)
    \/ \E m \in SwitcherMarkets : SetCurrentMarket(m)
    \/ CalculatorEvent(WideMarginValues)

SpecApp == Init /\ [][NextApp]_vars

\* the calculator handed a market that none of its tables lists
NextCfg ==
    \/ \E mode \in AppModes : SetActiveMode(mode)
    \/ \E m \in {"PH", UnconfiguredMarket} : SetCurrentMarket(m)
    \/ CalculatorEvent(MarginValues)

SpecCfg == Init /\ [][NextCfg]_vars

\* the calculator with competitor prices coming and going (the parcel left at
\* its initial weight and size)
NextCmp ==
    \/ \E mode \in AppModes      : SetActiveMode(mode)
    \/ \E m \in SwitcherMarkets  : SetCurrentMarket(m)
    \/ \E data \in ContextValues : SetAnalysisResult(data)
    \/ \E v \in CostValues       : SetCostCNY(v)
    \/ \E v \in MarginValues     : SetTargetMargin(v)
    \/ \E v \in FeeValues        : SetPlatformFeePercent(v)
    \/ \E id \in ChannelIds      : SetSelectedLogisticId(id)
    \/ \E idx \in 0..3           : SetZone(idx)
    \/ RunEffect

SpecCmp == Init /\ [][NextCmp]_vars

\* the calculator fed the values outside the usual ranges
NextEdge ==
    \/ \E mode \in AppModes       : SetActiveMode(mode)
    \/ \E m \in SwitcherMarkets   : SetCurrentMarket(m)
    \/ \E v \in CostValues        : SetCostCNY(v)
    \/ \E v \in EdgeWeightValues  : SetWeightKg(v)
    \/ \E v \in EdgeLengthValues  : SetLength(v)
    \/ \E v \in EdgeMarginValues  : SetTargetMargin(v)
    \/ \E v \in EdgeFeeValues     : SetPlatformFeePercent(v)
    \/ \E id \in ChannelIds       : SetSelectedLogisticId(id)
    \/ \E idx \in 0..3            : SetZone(idx)
    \/ RunEffect

SpecEdge == Init /\ [][NextEdge]_vars

(***************************************************************************)
(* Properties.  Each is stated on calc, the locals of the last run of      *)
(* calculate(), whose field in holds the inputs that run read.             *)
(***************************************************************************)

\* C1: for every market and channel the volumetric weight is exactly
\* length * width * height / 6000 and the chargeable weight is the larger of
\* the actual and the volumetric weight.
C1_VolumetricAndChargeable ==
    calc.ran =>
        /\ RMul(calc.volWeight, RInt(6000))
             = RInt(calc.in.length * calc.in.width * calc.in.height)
        /\ RLe(calc.in.weightKg, calc.chargeWeightKg)
        /\ RLe(calc.volWeight, calc.chargeWeightKg)
        /\ calc.chargeWeightKg \in {calc.in.weightKg, calc.volWeight}

\* a run on a bulk channel of another market where the volume decides
C1_Witness ==
    /\ calc.ran
    /\ calc.in.market = "VN" /\ calc.in.selectedLogisticId = "sea"
    /\ RLt(calc.in.weightKg, calc.volWeight)
    /\ calc.chargeWeightKg = Rat(1, 2)

\* C2: the selling price is total / divisor when the divisor 1 - fee - margin
\* is above 0.05 and exactly 2 * total otherwise; the fallback is taken exactly
\* when the divisor is at most 0.05 (0.05 itself, 0 and negative included).
C2_FallbackExactlyAtThreshold ==
    calc.ran =>
        LET divisor == Divisor(calc.in.platformFeePercent, calc.in.targetMargin)
        IN  IF RLt(Rat(5, 100), divisor)
            THEN /\ ~calc.fallback
                 /\ RMul(calc.sellingPriceCNY, divisor) = calc.totalBaseCostCNY
            ELSE /\ calc.fallback
                 /\ calc.sellingPriceCNY = RMul(calc.totalBaseCostCNY, RInt(2))

\* C3 as stated: with fee + margin at most 95% the selling price times
\* (1 - fee - margin) is the total cost; above 95% it is twice the total cost.
C3_AsStated ==
    calc.ran =>
        IF calc.in.platformFeePercent + calc.in.targetMargin <= 95
        THEN RMul(calc.sellingPriceCNY,
                  Divisor(calc.in.platformFeePercent, calc.in.targetMargin))
               = calc.totalBaseCostCNY
        ELSE calc.sellingPriceCNY = RMul(calc.totalBaseCostCNY, RInt(2))

\* C3: with fee + margin below 95% the selling price times (1 - fee - margin)
\* is the total cost; above 95% it is twice the total cost; at exactly 95% it
\* is one of the two, total / 0.05 or twice the total.
C3_MarginInvariant ==
    calc.ran =>
        LET sum     == calc.in.platformFeePercent + calc.in.targetMargin
            divisor == Divisor(calc.in.platformFeePercent, calc.in.targetMargin)
            normal  == RMul(calc.sellingPriceCNY, divisor) = calc.totalBaseCostCNY
            doubled == calc.sellingPriceCNY = RMul(calc.totalBaseCostCNY, RInt(2))
        IN  /\ sum < 95 => normal
            /\ sum > 95 => doubled
            /\ sum = 95 => normal \/ doubled

\* a run with a positive total cost at exactly 95% that doubled it
C3_Witness ==
    /\ calc.ran
    /\ calc.in.platformFeePercent + calc.in.targetMargin = 95
    /\ RLt(RInt(0), calc.totalBaseCostCNY)
    /\ calc.sellingPriceCNY = RMul(calc.totalBaseCostCNY, RInt(2))

\* C4: the net profit is the selling price in CNY times the target margin
\* percentage over 100, in the normal branch and in the fallback branch.
C4_NetProfit ==
    calc.ran =>
        /\ RMul(calc.profitCNY, RInt(100))
             = RMul(calc.sellingPriceCNY, RInt(calc.in.targetMargin))
        /\ calc.fallback =>
             calc.sellingPriceCNY = RMul(calc.totalBaseCostCNY, RInt(2))
        /\ ~calc.fallback =>
             RMul(calc.sellingPriceCNY,
                  Divisor(calc.in.platformFeePercent, calc.in.targetMargin))
               = calc.totalBaseCostCNY

\* a run of the fallback branch, on a negative divisor, with a profit
C4_Witness ==
    /\ calc.ran /\ calc.fallback
    /\ calc.in.platformFeePercent + calc.in.targetMargin > 100
    /\ RLt(RInt(0), calc.profitCNY)

(***************************************************************************)
(* Bounds of the quantifiers in the properties below                       *)
(***************************************************************************)
\* unit steps 0 .. MaxUnitSteps + 2 of the standard fee schedule
MaxUnitSteps == 6
\* chargeable weights 0, 50 g, ... , 50 g * MaxWeightSteps
MaxWeightSteps == 12
\* chargeable weights 0, 1 kg, ... , MaxBulkKg kg of the bulk channels
MaxBulkKg == 12

\* the rate and the base of the line through the fees at 1 and 2 unit steps
ZoneStepRate(market, zoneCode) ==
    RSub(StandardShippingLocal(market, zoneCode, 2), StandardShippingLocal(market, zoneCode, 1))
ZoneBase(market, zoneCode) ==
    RSub(StandardShippingLocal(market, zoneCode, 1), ZoneStepRate(market, zoneCode))

\* the fee is affine in the unit steps lo .. MaxUnitSteps + 2: equal successive
\* differences, which is what the existence of a base and a rate amounts to
StandardAffineFrom(market, zoneCode, lo) ==
    \A u \in lo..MaxUnitSteps :
        RSub(StandardShippingLocal(market, zoneCode, u + 2),
             StandardShippingLocal(market, zoneCode, u + 1))
          = RSub(StandardShippingLocal(market, zoneCode, u + 1),
                 StandardShippingLocal(market, zoneCode, u))

\* C5 as stated: on the standard channel there are a base and a rate of the
\* zone with local cost = base + unitSteps * rate for every unitSteps >= 0,
\* 0 included, and the reference cost is the local cost over the exchange rate.
C5_AsStated ==
    (calc.ran /\ calc.in.selectedLogisticId = "standard") =>
        /\ StandardAffineFrom(calc.in.market, calc.in.zone, 0)
        /\ RMul(calc.shippingCNY, exchangeRate(calc.in.market)) = calc.shippingLocal

\* C5: on the standard channel there are a base and a rate of the zone with
\* local cost = base + unitSteps * rate for every unitSteps >= 1; for TH and
\* PH also at 0, while for the other markets the cost at 0 is the cost at 1;
\* the reference cost is the local cost over the exchange rate.
C5_StandardAffine ==
    (calc.ran /\ calc.in.selectedLogisticId = "standard") =>
        LET m == calc.in.market
            z == calc.in.zone
            zoneBase     == ZoneBase(m, z)
            zoneStepRate == ZoneStepRate(m, z)
            line(u) == RAdd(zoneBase, RMul(RInt(u), zoneStepRate))
        IN  /\ StandardAffineFrom(m, z, 1)
            /\ \A u \in 1..(MaxUnitSteps + 2) : StandardShippingLocal(m, z, u) = line(u)
            /\ calc.units >= 1 => calc.shippingLocal = line(calc.units)
            /\ IF m \in {"TH", "PH"}
               THEN StandardShippingLocal(m, z, 0) = line(0)
               ELSE StandardShippingLocal(m, z, 0) = StandardShippingLocal(m, z, 1)
            /\ calc.units = 0 =>
                 calc.shippingLocal = (IF m \in {"TH", "PH"} THEN line(0) ELSE line(1))
            /\ RMul(calc.shippingCNY, exchangeRate(m)) = calc.shippingLocal

\* a standard run of a clamped market with several unit steps in its far zone
C5_Witness ==
    /\ calc.ran /\ calc.in.selectedLogisticId = "standard"
    /\ calc.in.market = "VN" /\ calc.in.zone = "D"
    /\ calc.units = 17
    /\ calc.shippingLocal = RInt(30000 + 17 * 900)

\* C6: a zone that is not one of the current market's zones is never used in
\* a standard-channel calculation.
C6_ZoneValidForMarket ==
    (calc.ran /\ calc.in.selectedLogisticId = "standard") =>
        calc.in.zone \in ValidZones(calc.in.market)

\* C7: no price result is produced for a market or a channel that has no
\* configuration.
C7_FailsFastOnUnknownConfig ==
    calc.ran =>
        /\ calc.in.market \in TargetMarkets
        /\ calc.in.selectedLogisticId \in ChannelIds

\* C8: on a bulk channel the billed weight is the larger of the chargeable
\* weight and the channel minimum (10 kg by sea, 0.1 kg by land and air), the
\* cost in CNY is the billed weight times the market's rate per kg of the
\* channel, the local cost is that times the exchange rate, and every weight
\* below the minimum costs what the minimum costs.
C8_BulkMinimumWeight ==
    (calc.ran /\ calc.in.selectedLogisticId \in BulkChannels) =>
        LET m      == calc.in.market
            id     == calc.in.selectedLogisticId
            min    == IF id = "sea" THEN Rat(10, 1) ELSE Rat(1, 10)
            perKg  == RInt(PricePerKg(m, id))
            billed == RMax(calc.chargeWeightKg, min)
        IN  /\ calc.shippingCNY = RMul(billed, perKg)
            /\ calc.shippingLocal = RMul(calc.shippingCNY, exchangeRate(m))
            /\ RLt(calc.chargeWeightKg, min) =>
                 calc.shippingCNY = BulkShippingCNY(m, id, min)
            /\ \A k \in 0..MaxBulkKg :
                 BulkShippingCNY(m, id, RInt(k)) = RMul(RMax(RInt(k), min), perKg)

\* a land run below the minimum and billed at it
C8_Witness ==
    /\ calc.ran /\ calc.in.selectedLogisticId = "land"
    /\ calc.in.market = "MY"
    /\ calc.chargeWeightKg = Rat(1, 12)
    /\ calc.shippingCNY = Rat(7, 10)

\* C9: on a bulk channel the zone has no effect: for every zone the run of
\* calculate() computes the same values and can store the results held.
C9_BulkIgnoresZone ==
    (calc.ran /\ ~pendingEffect /\ calc.in.selectedLogisticId \in BulkChannels) =>
        \A z \in Zones :
            LET other == calculate([calc.in EXCEPT !.zone = z])
            IN  /\ [other EXCEPT !.in = calc.in] = calc
                /\ results \in SetResultsOutcomes(other)

\* a bulk run with a zone other than the initial one
C9_Witness ==
    /\ calc.ran /\ ~pendingEffect
    /\ calc.in.selectedLogisticId = "air" /\ calc.in.zone = "C"
    /\ RLt(RInt(0), calc.shippingCNY)

\* the standard fee of a chargeable weight in kg
StandardCostOfWeight(market, zoneCode, chargeWeightKg) ==
    StandardShippingLocal(market, zoneCode, Units(ChargeWeightG(chargeWeightKg)))

\* C10: on the standard channel, for a fixed zone, the local shipping cost
\* never decreases when the chargeable weight increases.
C10_StandardMonotone ==
    (calc.ran /\ ~pendingEffect /\ calc.in.selectedLogisticId = "standard") =>
        LET m == calc.in.market
            z == calc.in.zone
            cost == [k \in 0..MaxWeightSteps |-> StandardCostOfWeight(m, z, Rat(50 * k, 1000))]
        IN  /\ \A k1, k2 \in 0..MaxWeightSteps : k1 <= k2 => RLe(cost[k1], cost[k2])
            /\ \A k \in 0..MaxWeightSteps :
                 /\ RLe(Rat(50 * k, 1000), calc.chargeWeightKg)
                      => RLe(cost[k], calc.shippingLocal)
                 /\ RLe(calc.chargeWeightKg, Rat(50 * k, 1000))
                      => RLe(calc.shippingLocal, cost[k])

\* a standard run of a clamped market between two weights of the grid
C10_Witness ==
    /\ calc.ran /\ ~pendingEffect /\ calc.in.selectedLogisticId = "standard"
    /\ calc.in.market = "ID" /\ calc.in.zone = "B"
    /\ calc.units = 17

\* the chargeable weight in grams, before any rounding
ChargeableGrams(c) == RMul(c.chargeWeightKg, RInt(1000))

\* C11: the chargeable weight in grams is rounded up to a multiple of 10 g:
\* the rounded value is never below the unrounded grams, exceeds it by less
\* than 10 g, equals it when it is already a multiple of 10 g, and unitSteps
\* is the ceiling of the grams over 10.
C11_RoundUpToTenGrams ==
    calc.ran =>
        LET grams == ChargeableGrams(calc)
        IN  /\ RLe(grams, RInt(calc.chargeWeightG))
            /\ RLt(RSub(RInt(calc.chargeWeightG), grams), RInt(10))
            /\ calc.chargeWeightG % 10 = 0
            /\ (grams[2] = 1 /\ grams[1] % 10 = 0) => calc.chargeWeightG = grams[1]
            /\ calc.units = Ceil(RDiv(grams, RInt(10)))

\* C12: once the effect of the last change has run, the results held are what
\* calculate() stores for the current inputs alone, and so are its locals.
C12_ResultsOfCurrentInputs ==
    (Mounted /\ ~pendingEffect) =>
        /\ calc = calculate(CurrentInputs)
        /\ results \in SetResultsOutcomes(calculate(CurrentInputs))

\* the effect has run after several changes, the market among them
C12_Witness ==
    /\ Mounted /\ ~pendingEffect
    /\ currentMarket = "MY" /\ zone = "B" /\ selectedLogisticId = "standard"
    /\ costCNY = 0 /\ platformFeePercent = 30 /\ targetMargin = 65
    /\ results.totalCostCNY \in ToFixedOutcomes(calc.shippingCNY, 100)
    /\ RLt(RInt(0), results.suggestedPriceLocal)

\* the total cost the results hold is the stored total of the current inputs
TotalCostOfCurrentInputs ==
    results.totalCostCNY
        \in ToFixedOutcomes(calculate(CurrentInputs).totalBaseCostCNY, 100)

C14_TotalCostIsCurrent ==
    (Mounted /\ MarketStats(contextData).shown) => TotalCostOfCurrentInputs

\* C15: a competitor entry with a local price of 0 gets a margin that is
\* neither NaN nor infinite.
C15_ZeroPriceMarginDefined ==
    \A i \in DOMAIN MarketStatsRows :
        contextData.priceData[i] = RInt(0) =>
            MarketStatsRows[i].marginPercent.kind \notin {"NaN", "Infinity", "-Infinity"}

\* two amounts in CNY differ by at most one cent
WithinCent(a, b) ==
    /\ RLe(RSub(a, b), Rat(1, 100))
    /\ RLe(RSub(b, a), Rat(1, 100))

\* C16 as stated: in the normal branch the implied profit at the engine's own
\* selling price is, within a cent, the net profit minus the platform fee at
\* that price.
C16_AsStated ==
    (Mounted /\ ~pendingEffect /\ calc.ran /\ ~calc.fallback) =>
        WithinCent(calculateMarginAtPrice(calc.sellingPriceLocal).profitCNY,
                   RSub(calc.profitCNY,
                        RMul(calc.sellingPriceCNY, Rat(platformFeePercent, 100))))

\* C16: in the normal branch the implied profit at the engine's own selling
\* price is, within a cent, the engine's net profit (which is already net of
\* the platform fee), also for a competitor entry with just that price.
C16_ImpliedProfitIsNetProfit ==
    (Mounted /\ ~pendingEffect /\ calc.ran /\ ~calc.fallback) =>
        /\ WithinCent(calculateMarginAtPrice(calc.sellingPriceLocal).profitCNY,
                      calc.profitCNY)
        /\ \A i \in DOMAIN MarketStatsRows :
             contextData.priceData[i] = calc.sellingPriceLocal =>
                 WithinCent(MarketStatsRows[i].profitCNY, calc.profitCNY)

\* a competitor priced at the engine's selling price of 612.5 PHP
C16_Witness ==
    /\ Mounted /\ ~pendingEffect /\ calc.ran /\ ~calc.fallback
    /\ calc.sellingPriceLocal = Rat(1225, 2)
    /\ Len(MarketStatsRows) = 3
    /\ contextData.priceData[2] = calc.sellingPriceLocal
    /\ platformFeePercent = 30

\* C17: with at least one competitor entry the average is the sum of the
\* local prices over their number; with no priceData or an empty one there is
\* no average and no row.
C17_AverageAndAbsence ==
    LET stats == MarketStats(contextData)
        n     == Len(contextData.priceData)
    IN  IF contextData.hasPriceData /\ n > 0
        THEN /\ stats.shown
             /\ RMul(stats.avg, RInt(n)) = SumPrices(contextData.priceData)
             /\ stats.items = contextData.priceData
             /\ Mounted => Len(MarketStatsRows) = n
        ELSE /\ ~stats.shown
             /\ MarketStatsRows = <<>>

\* three competitor prices, 0, 612.5 and 200, shown by the calculator
C17_Witness ==
    /\ Mounted
    /\ Len(contextData.priceData) = 3
    /\ MarketStats(contextData).avg = Rat(1625, 6)
    /\ Len(MarketStatsRows) = 3

\* the calculator shown with an empty priceData
C17_WitnessEmpty ==
    /\ Mounted /\ contextData.hasPriceData /\ contextData.priceData = <<>>

\* C18: the local selling price is the selling price in CNY times the
\* exchange rate; for VN and ID the suggested price is the smallest multiple
\* of 100 not below it (less than 100 above it, equal to it when it is a
\* multiple of 100); for the other markets it is not rounded to 100.
C18_SuggestedPriceRounding ==
    calc.ran =>
        LET local     == calc.sellingPriceLocal
            suggested == results.suggestedPriceLocal
        IN  /\ local = RMul(calc.sellingPriceCNY, exchangeRate(calc.in.market))
            /\ IF calc.in.market \in {"VN", "ID"}
               THEN /\ suggested[2] = 1 /\ suggested[1] % 100 = 0
                    /\ RLe(local, suggested)
                    /\ RLt(RSub(suggested, local), RInt(100))
               ELSE suggested \in ToFixedOutcomes(local, 100)

\* C19 as stated: calculate() completes for any margin and fee, and a negative
\* target margin yields a selling price below the total cost.
C19_AsStated ==
    /\ (Mounted /\ ~pendingEffect) => calc.ran
    /\ (calc.ran /\ calc.in.targetMargin < 0) =>
           RLt(calc.sellingPriceCNY, calc.totalBaseCostCNY)

\* C19: calculate() completes for any margin and fee, read as given; with a
\* negative target margin the selling price is below a positive total cost
\* when fee + margin is negative, and not below a non-negative total cost
\* when fee + margin is zero or more.
C19_PercentagesUnclamped ==
    /\ (Mounted /\ ~pendingEffect) =>
           /\ calc.ran
           /\ calc.in.targetMargin = targetMargin
           /\ calc.in.platformFeePercent = platformFeePercent
    /\ (calc.ran /\ calc.in.targetMargin < 0) =>
           LET sum   == calc.in.platformFeePercent + calc.in.targetMargin
               total == calc.totalBaseCostCNY
           IN  /\ (sum < 0 /\ RLt(RInt(0), total)) => RLt(calc.sellingPriceCNY, total)
               /\ (sum >= 0 /\ RLe(RInt(0), total)) => RLe(total, calc.sellingPriceCNY)

\* a run with margin -10 and fee 8 that priced a positive total below itself
C19_Witness ==
    /\ calc.ran /\ calc.in.targetMargin = -10 /\ calc.in.platformFeePercent = 8
    /\ RLt(RInt(0), calc.totalBaseCostCNY)
    /\ RLt(calc.sellingPriceCNY, calc.totalBaseCostCNY)

\* C20 as stated: nothing is validated, and whenever the volumetric weight is
\* not positive the chargeable weight is the actual weight.
C20_AsStated ==
    /\ (Mounted /\ ~pendingEffect) => calc.ran
    /\ (calc.ran /\ RLe(calc.volWeight, RInt(0))) =>
           calc.chargeWeightKg = calc.in.weightKg

\* C20: nothing is validated; whenever the volumetric weight is not positive
\* the chargeable weight is the actual weight if that is not below the
\* volumetric weight, and the volumetric weight otherwise.
C20_NonPositiveVolume ==
    /\ (Mounted /\ ~pendingEffect) =>
           /\ calc.ran
           /\ calc.in.weightKg = weightKg /\ calc.in.length = length
    /\ (calc.ran /\ RLe(calc.volWeight, RInt(0))) =>
           IF RLe(calc.volWeight, calc.in.weightKg)
           THEN calc.chargeWeightKg = calc.in.weightKg
           ELSE calc.chargeWeightKg = calc.volWeight

\* a run on a negative length: the volume is negative, the actual weight
\* is charged
C20_Witness ==
    /\ calc.ran /\ calc.in.length = -10
    /\ RLt(calc.volWeight, RInt(0))
    /\ calc.chargeWeightKg = Rat(1, 10)

\* the component's default inputs with the market prop TH
DefaultInputsTH == InitialInputs @@ [market |-> "TH"]

\* C21: with market TH, standard channel, zone A, 0.1 kg, 10x10x5 cm, goods
\* cost 20, margin 30 and fee 8 (the default inputs), calculate() yields a
\* chargeable weight of 100 g = 10 unit steps, local shipping 23 + 10 = 33,
\* reference shipping 33/5, total cost 26.6, reference selling price
\* 26.6/0.62 and a net profit of 0.30 times that price.
C21_DefaultExampleTH ==
    (calc.ran /\ calc.in = DefaultInputsTH) =>
        /\ calc.chargeWeightG = 100
        /\ calc.units = 10
        /\ calc.shippingLocal = RInt(23 + 10)
        /\ calc.shippingCNY = Rat(33, 5)
        /\ calc.totalBaseCostCNY = Rat(266, 10)
        /\ calc.sellingPriceCNY = RDiv(Rat(266, 10), Rat(62, 100))
        /\ calc.profitCNY = RMul(Rat(30, 100), calc.sellingPriceCNY)

C21_Witness ==
    /\ Mounted /\ ~pendingEffect
    /\ calc.ran /\ calc.in = DefaultInputsTH
    /\ CurrentInputs = DefaultInputsTH

\* goods cost, actual weight and dimensions of a run are all non-negative
NonNegativeParcel(in) ==
    /\ in.costCNY >= 0 /\ RLe(RInt(0), in.weightKg)
    /\ in.length >= 0 /\ in.width >= 0 /\ in.height >= 0

\* C28: for non-negative goods cost, actual weight and dimensions, in every
\* market, channel and zone, the local and the reference shipping cost are
\* >= 0 and the total cost is >= the goods cost; if moreover margin >= 0,
\* fee >= 0 and 1 - fee/100 - margin/100 > 0.05, the reference selling price
\* is >= the total cost and the net profit is >= 0.
C28_NonNegativeAmounts ==
    (calc.ran /\ calc.in.market \in TargetMarkets /\ NonNegativeParcel(calc.in)) =>
        /\ RLe(RInt(0), calc.shippingLocal)
        /\ RLe(RInt(0), calc.shippingCNY)
        /\ RLe(RInt(calc.in.costCNY), calc.totalBaseCostCNY)
        /\ ( /\ calc.in.targetMargin >= 0
             /\ calc.in.platformFeePercent >= 0
             /\ RLt(Rat(5, 100),
                    Divisor(calc.in.platformFeePercent, calc.in.targetMargin)) )
           => /\ RLe(calc.totalBaseCostCNY, calc.sellingPriceCNY)
              /\ RLe(RInt(0), calc.profitCNY)

C28_Witness ==
    /\ calc.ran /\ NonNegativeParcel(calc.in)
    /\ calc.in.market = "VN" /\ calc.in.selectedLogisticId = "standard"
    /\ calc.in.zone = "D" /\ calc.in.costCNY > 0
    /\ calc.in.targetMargin = 65 /\ calc.in.platformFeePercent = 8
    /\ RLt(calc.totalBaseCostCNY, calc.sellingPriceCNY)
    /\ RLt(RInt(0), calc.profitCNY)

(***************************************************************************)
(* The standard-channel price table                                        *)
(***************************************************************************)
\* const limit = market === 'ID' || market === 'VN' ? 500 : 1000
TableLimit(market) == IF market = "ID" \/ market = "VN" THEN 500 ELSE 1000

\* for (let g = 10; g <= limit; g += step), step = 10: the row weights
priceTableWeights(market) == {10 * i : i \in 1..(TableLimit(market) \div 10)}

\* a variant whose add-on starts one row late in the markets that charge the
\* base fee plus units, and one row early in the others
priceTableRowShifted(market, g) ==
    LET units == Ceil(Rat(g, 10))
        addOn(stepPrice) == RMul(RInt(units), stepPrice)
    IN  CASE market = "TH" -> << RInt(23 + units - 1), RInt(36 + units - 1),
                                 RInt(79 + units - 1) >>
          [] market = "PH" -> << RAdd(RInt(40), RMul(RInt(units - 1), Rat(45, 10))),
                                 RAdd(RInt(60), RMul(RInt(units - 1), Rat(45, 10))) >>
          [] market = "VN" -> << RAdd(RInt(15900), addOn(RInt(900))),
                                 RAdd(RInt(17900), addOn(RInt(900))),
                                 RAdd(RInt(30900), addOn(RInt(900))) >>
          [] market = "MY" -> << RAdd(Rat(465, 100), addOn(Rat(15, 100))),
                                 RAdd(Rat(815, 100), addOn(Rat(15, 100))) >>
          [] market = "SG" -> << RAdd(Rat(150, 100), addOn(Rat(15, 100))) >>
          [] market = "ID" -> << RAdd(RInt(10000), addOn(RInt(1000))),
                                 RAdd(RInt(20000), addOn(RInt(1000))) >>
          [] OTHER         -> << >>

\* the columns col1, col2, col3 of the row pushed for weight g
priceTableRow(market, g) ==
    LET units == Ceil(Rat(g, 10))
        addOn(stepPrice) == RMul(RInt(units - 1), stepPrice)
        commonBase == RMul(RInt(units), Rat(45, 10))
    IN  CASE market = "TH" -> << RInt(23 + units), RInt(36 + units),
                                 RInt(79 + units) >>
          [] market = "PH" -> << RAdd(RInt(40), commonBase),
                                 RAdd(RInt(60), commonBase) >>
          [] market = "VN" -> << RAdd(RInt(15900), addOn(RInt(900))),
                                 RAdd(RInt(17900), addOn(RInt(900))),
                                 RAdd(RInt(30900), addOn(RInt(900))) >>
          [] market = "MY" -> << RAdd(Rat(465, 100), addOn(Rat(15, 100))),
                                 RAdd(Rat(815, 100), addOn(Rat(15, 100))) >>
          [] market = "SG" -> << RAdd(Rat(150, 100), addOn(Rat(15, 100))) >>
          [] market = "ID" -> << RAdd(RInt(10000), addOn(RInt(1000))),
                                 RAdd(RInt(20000), addOn(RInt(1000))) >>
          [] OTHER         -> << >>

\* the rows of the table rendered for the market prop
priceTable(market) ==
    [g \in priceTableWeights(market) |-> priceTableRow(market, g)]

\* the column whose cell is highlighted for a zone, which is the column under
\* that zone's header (VN: B and C share the column "Zone B/C", D is third)
ZoneColumn(market, zoneCode) ==
    IF zoneCode = "A" THEN 1
    ELSE IF zoneCode = "B" \/ (market = "VN" /\ zoneCode = "C") THEN 2
    ELSE 3

\* actual weights that land on the first row (with no volume), on the last
\* row of the shorter and of the longer table
TableWeightValues == {Rat(1, 100), Rat(1, 2), RInt(1)}

\* no volume (the actual weight alone decides the row) or the default length
TableLengthValues == {0, 10}

\* the calculator beside its price table, in every market
NextTable ==
    \/ \E mode \in AppModes        : SetActiveMode(mode)
    \/ \E m \in TargetMarkets      : SetCurrentMarket(m)
    \/ \E v \in TableWeightValues  : SetWeightKg(v)
    \/ \E v \in TableLengthValues  : SetLength(v)
    \/ \E id \in ChannelIds        : SetSelectedLogisticId(id)
    \/ \E idx \in 0..3             : SetZone(idx)
    \/ RunEffect

SpecTable == Init /\ [][NextTable]_vars

\* what calculate() charges locally on the standard channel for a chargeable
\* weight of g grams
StandardCostOfGrams(market, zoneCode, g) ==
    StandardShippingLocal(market, zoneCode, Units(ChargeWeightG(Rat(g, 1000))))

Users == {"u1", "u2"}

Images == {"img1", "img2"}

\* what analyzeProduct resolves with: a report without priceData, or one
\* with a price
AnalysisDataValues ==
    { NoContextData, [hasPriceData |-> TRUE, priceData |-> <<RInt(100)>>] }

\* the number of items the history list holds at most in the model
MaxHistory == 2

\* what the functions of one render see: currentUser, selectedImage and
\* currentMarket of that render
Closure == [user |-> currentUser, image |-> selectedImage, market |-> currentMarket]

\* addToHistory(mode, title, data) as called from a render with closure c:
\* nothing without a user, else the new item in front
addToHistory(c, mode, data) ==
    IF c.user = NoUser
    THEN history
    ELSE << [mode |-> mode, data |-> data, thumbnail |-> c.image,
             market |-> c.market] >> \o history

\* LoginModal onLoginSuccess: setCurrentUser(user)
Login(u) ==
    /\ ~pendingEffect
    /\ currentUser = NoUser
    /\ currentUser' = u
    /\ UNCHANGED <<history, selectedImage, isAnalyzing, analysis, analysisOrigin>>
    /\ UNCHANGED <<activeMode, currentMarket, contextData, calcVars, videoVars,
                   batchVars, chatVars>>

\* the logout button: setCurrentUser(null); setHistory([])
Logout ==
    /\ ~pendingEffect
    /\ currentUser # NoUser
    /\ currentUser' = NoUser
    /\ history' = << >>
    /\ UNCHANGED <<selectedImage, isAnalyzing, analysis, analysisOrigin>>
    /\ UNCHANGED <<activeMode, currentMarket, contextData, calcVars, videoVars,
                   batchVars, chatVars>>

\* handleFileChange, reader.onloadend: the new image, and the reset of what
\* was made from the old one (of the states reset, the model holds
\* analysisResult, generatedVideoUrl and batchImages).  The upload section is
\* rendered in every mode but LIVE_AGENT and CALCULATOR.
SelectImage(img) ==
    /\ ~pendingEffect
    /\ activeMode \notin {"LIVE_AGENT", "CALCULATOR"}
    /\ selectedImage' = img
    /\ assets' = <<img>>
    /\ contextData' = NoContextData
    /\ analysisOrigin' = NoOrigin
    /\ generatedVideoUrl' = NoUrl
    /\ batchImages' = << >>
    /\ IF contextData # NoContextData THEN ResetChat ELSE UNCHANGED chatVars
    /\ UNCHANGED <<currentUser, history, isAnalyzing, analysis>>
    /\ UNCHANGED <<aistudio, isGeneratingVideo, videoRuns, isBatchGenerating, batchRuns>>
    /\ UNCHANGED <<activeMode, currentMarket, calcVars>>

\* handleAnalyze up to its await: the button is rendered in ANALYSIS mode and
\* disabled without an image or while isAnalyzing
StartAnalyze ==
    /\ ~pendingEffect
    /\ activeMode = "ANALYSIS"
    /\ selectedImage # NoImage /\ ~isAnalyzing
    /\ Len(history) < MaxHistory
    /\ isAnalyzing' = TRUE
    /\ analysis' = [pending |-> TRUE, closure |-> Closure]
    /\ UNCHANGED <<currentUser, history, selectedImage, analysisOrigin>>
    /\ UNCHANGED <<activeMode, currentMarket, contextData, calcVars, videoVars,
                   batchVars, chatVars>>

\* analyzeProduct resolves: setAnalysisResult(data), addToHistory of the
\* render that started the call, finally setIsAnalyzing(false)
CompleteAnalyze(data) ==
    /\ ~pendingEffect
    /\ analysis.pending
    /\ contextData' = data
    /\ analysisOrigin' = [image |-> analysis.closure.image,
                          market |-> analysis.closure.market]
    /\ history' = addToHistory(analysis.closure, "ANALYSIS", data)
    /\ isAnalyzing' = FALSE
    /\ analysis' = NoRequest
    /\ ResetChat
    /\ UNCHANGED <<currentUser, selectedImage>>
    /\ UNCHANGED <<activeMode, currentMarket, calcVars, videoVars, batchVars>>

\* analyzeProduct rejects: alert, finally setIsAnalyzing(false)
FailAnalyze ==
    /\ ~pendingEffect
    /\ analysis.pending
    /\ isAnalyzing' = FALSE
    /\ analysis' = NoRequest
    /\ UNCHANGED <<currentUser, history, selectedImage, analysisOrigin>>
    /\ UNCHANGED <<activeMode, currentMarket, contextData, calcVars, videoVars,
                   batchVars, chatVars>>

\* restoreHistoryItem(item) for the i-th item of the list, which is rendered
\* for a logged-in user: mode, market and image of the item, and its data as
\* analysisResult or generatedVideoUrl
restoreHistoryItem(i) ==
    /\ ~pendingEffect
    /\ currentUser # NoUser
    /\ i \in 1..Len(history)
    /\ LET item == history[i]
       IN  /\ activeMode' = item.mode
           /\ currentMarket' = item.market
           /\ selectedImage' = IF item.thumbnail # NoImage THEN item.thumbnail
                                ELSE selectedImage
           /\ IF item.mode = "ANALYSIS"
              THEN /\ contextData' = item.data
                   /\ analysisOrigin' = [image |-> item.thumbnail,
                                         market |-> item.market]
                   /\ UNCHANGED generatedVideoUrl
              ELSE /\ generatedVideoUrl' = item.data
                   /\ UNCHANGED <<contextData, analysisOrigin>>
           /\ IF item.market # currentMarket
                 \/ (item.mode = "ANALYSIS" /\ item.data # contextData)
              THEN ResetChat ELSE UNCHANGED chatVars
    /\ IF activeMode = "CALCULATOR"
       THEN FreshCalculator /\ pendingEffect' = FALSE
       ELSE UNCHANGED calcVars
    /\ UNCHANGED <<currentUser, history, isAnalyzing, analysis>>
    /\ UNCHANGED <<aistudio, isGeneratingVideo, videoRuns, batchVars>>

\* a session: login and logout, images, analyses, the market switcher, the
\* history and the calculator tab
NextSession ==
    \/ \E u \in Users             : Login(u)
    \/ Logout
    \/ \E img \in Images          : SelectImage(img)
    \/ StartAnalyze
    \/ \E d \in AnalysisDataValues : CompleteAnalyze(d)
    \/ FailAnalyze
    \/ \E i \in 1..MaxHistory     : restoreHistoryItem(i)
    \/ \E mode \in {"ANALYSIS", "CALCULATOR"} : SetActiveMode(mode)
    \/ \E m \in SwitcherMarkets   : SetCurrentMarket(m)
    \/ RunEffect

SpecSession == Init /\ [][NextSession]_vars

\* C24: the history list is empty whenever no user is logged in, under every
\* interleaving of login, logout and completions of asynchronous requests
\* (a request started while logged in that completes after logout included).
C24_HistoryOnlyWhileLoggedIn ==
    currentUser = NoUser => history = << >>

\* C26: the displayed analysis result belongs to the currently selected
\* product image; an analysis started for a previous image that completes
\* after a new image was selected does not set analysisResult.
C26_ResultOfSelectedImage ==
    analysisOrigin # NoOrigin => analysisOrigin.image = selectedImage

\* C27: the price data the calculator's comparator shows and converts was
\* obtained under the market whose exchange rate and currency symbol the
\* comparator applies, i.e. the current market.
C27_PricesOfCurrentMarket ==
    (Mounted /\ contextData.hasPriceData) => analysisOrigin.market = currentMarket

(***************************************************************************)
(* App: handleGenerateVideo                                                *)
(***************************************************************************)
AistudioMethods == {"hasSelectedApiKey", "openSelectKey"}

\* how generateProductVideo can fail: with a message containing "Requested
\* entity was not found", or otherwise
VideoErrors == {"notFound", "other"}

VideoUrl == "video"

\* a variant that retries after any error
ShouldRetryAnyError(err, methods) == "openSelectKey" \in methods

\* error.message.includes("Requested entity was not found") and
\* window.aistudio && window.aistudio.openSelectKey
ShouldRetry(err, methods) == err = "notFound" /\ "openSelectKey" \in methods

\* what no step of handleGenerateVideo changes
VideoFrame ==
    /\ UNCHANGED <<currentUser, selectedImage, isAnalyzing, analysis, analysisOrigin>>
    /\ UNCHANGED <<activeMode, currentMarket, contextData, calcVars, aistudio,
                   batchVars, chatVars>>

\* setIsGeneratingVideo(true); setGeneratedVideoUrl(null); performGeneration()
BeginGeneration(i) ==
    /\ isGeneratingVideo' = TRUE
    /\ generatedVideoUrl' = NoUrl
    /\ videoRuns' = [videoRuns EXCEPT ![i].pc = "generating", ![i].calls = 1]
    /\ UNCHANGED history

\* the handler returns or throws before setIsGeneratingVideo(true)
LeaveEarly(i, outcome) ==
    /\ videoRuns' = [videoRuns EXCEPT ![i].pc = "done", ![i].outcome = outcome]
    /\ UNCHANGED <<isGeneratingVideo, generatedVideoUrl, history>>

\* setGeneratedVideoUrl(url); addToHistory(...); finally
\* setIsGeneratingVideo(false)
FinishWithVideo(i, outcome) ==
    /\ generatedVideoUrl' = VideoUrl
    /\ history' = addToHistory(videoRuns[i].closure, "VEO_VIDEO", VideoUrl)
    /\ isGeneratingVideo' = FALSE
    /\ videoRuns' = [videoRuns EXCEPT ![i].pc = "done", ![i].outcome = outcome]

\* alert (or nothing); finally setIsGeneratingVideo(false)
FinishWithoutVideo(i, outcome) ==
    /\ isGeneratingVideo' = FALSE
    /\ videoRuns' = [videoRuns EXCEPT ![i].pc = "done", ![i].outcome = outcome]
    /\ UNCHANGED <<generatedVideoUrl, history>>

\* the button is rendered in VEO_VIDEO mode, disabled without an image or
\* while isGeneratingVideo; the handler asks for the key state first if
\* window.aistudio.hasSelectedApiKey exists
StartVideo(i) ==
    /\ ~pendingEffect
    /\ activeMode = "VEO_VIDEO"
    /\ selectedImage # NoImage /\ ~isGeneratingVideo
    /\ videoRuns[i].pc \in {"idle", "done"}
    /\ LET fresh == [IdleVideoRun EXCEPT !.closure = Closure]
       IN  IF "hasSelectedApiKey" \in aistudio
           THEN /\ videoRuns' = [videoRuns EXCEPT ![i] = [fresh EXCEPT !.pc = "hasKey"]]
                /\ UNCHANGED <<isGeneratingVideo, generatedVideoUrl>>
           ELSE /\ videoRuns' = [videoRuns EXCEPT
                                    ![i] = [fresh EXCEPT !.pc = "generating", !.calls = 1]]
                /\ isGeneratingVideo' = TRUE
                /\ generatedVideoUrl' = NoUrl
    /\ UNCHANGED history
    /\ VideoFrame

\* await window.aistudio.hasSelectedApiKey() resolves
HasKeyResolves(i, hasKey) ==
    /\ videoRuns[i].pc = "hasKey"
    /\ IF hasKey THEN BeginGeneration(i)
       ELSE IF "openSelectKey" \in aistudio
            THEN /\ videoRuns' = [videoRuns EXCEPT ![i].pc = "selectKey"]
                 /\ UNCHANGED <<isGeneratingVideo, generatedVideoUrl, history>>
            ELSE LeaveEarly(i, "noKey")
    /\ VideoFrame

\* await window.aistudio.openSelectKey() resolves, before the generation
SelectKeyResolves(i) ==
    /\ videoRuns[i].pc = "selectKey"
    /\ BeginGeneration(i)
    /\ VideoFrame

\* one of the two awaits before the generation rejects: the handler throws
KeyCheckRejects(i) ==
    /\ videoRuns[i].pc \in {"hasKey", "selectKey"}
    /\ LeaveEarly(i, "rejected")
    /\ VideoFrame

\* the first performGeneration() resolves
GenerationSucceeds(i) ==
    /\ videoRuns[i].pc = "generating"
    /\ FinishWithVideo(i, "success")
    /\ VideoFrame

\* the first performGeneration() rejects with err
GenerationFails(i, err) ==
    /\ videoRuns[i].pc = "generating"
    /\ IF ShouldRetry(err, aistudio)
       THEN /\ videoRuns' = [videoRuns EXCEPT ![i].pc = "reselectKey",
                                                ![i].firstError = err]
            /\ UNCHANGED <<isGeneratingVideo, generatedVideoUrl, history>>
       ELSE /\ isGeneratingVideo' = FALSE
            /\ videoRuns' = [videoRuns EXCEPT ![i].pc = "done",
                                                ![i].firstError = err,
                                                ![i].outcome = "failure"]
            /\ UNCHANGED <<generatedVideoUrl, history>>
    /\ VideoFrame

\* await window.aistudio.openSelectKey() in the catch block resolves:
\* performGeneration(true)
ReselectKeyResolves(i) ==
    /\ videoRuns[i].pc = "reselectKey"
    /\ videoRuns' = [videoRuns EXCEPT ![i].pc = "retrying",
                                        ![i].calls = videoRuns[i].calls + 1]
    /\ UNCHANGED <<isGeneratingVideo, generatedVideoUrl, history>>
    /\ VideoFrame

\* it rejects: caught by the inner catch, alert, finally
ReselectKeyRejects(i) ==
    /\ videoRuns[i].pc = "reselectKey"
    /\ FinishWithoutVideo(i, "retryFailure")
    /\ VideoFrame

\* the second performGeneration() resolves
RetrySucceeds(i) ==
    /\ videoRuns[i].pc = "retrying"
    /\ FinishWithVideo(i, "retrySuccess")
    /\ VideoFrame

\* the second performGeneration() rejects: inner catch, alert, finally
RetryFails(i) ==
    /\ videoRuns[i].pc = "retrying"
    /\ FinishWithoutVideo(i, "retryFailure")
    /\ VideoFrame

\* the app inside or outside AI Studio
InitAistudio ==
    /\ InitCalculator
    /\ InitSession
    /\ aistudio \in SUBSET AistudioMethods
    /\ InitVideo
    /\ InitBatch
    /\ InitChat

NextVideo ==
    \/ \E img \in Images : SelectImage(img)
    \/ \E mode \in {"ANALYSIS", "VEO_VIDEO"} : SetActiveMode(mode)
    \/ \E i \in 1..MaxVideoRuns :
          \/ StartVideo(i)
          \/ \E hasKey \in BOOLEAN : HasKeyResolves(i, hasKey)
          \/ SelectKeyResolves(i)
          \/ KeyCheckRejects(i)
          \/ GenerationSucceeds(i)
          \/ \E err \in VideoErrors : GenerationFails(i, err)
          \/ ReselectKeyResolves(i)
          \/ ReselectKeyRejects(i)
          \/ RetrySucceeds(i)
          \/ RetryFails(i)

SpecVideo == InitAistudio /\ [][NextVideo]_vars

\* the paths of an invocation that started the generation
GenerationOutcomes == {"success", "failure", "retrySuccess", "retryFailure"}

\* C22: one invocation of handleGenerateVideo calls the video generation
\* service at most twice; a second attempt happens only if the first failed
\* with "Requested entity was not found" and key selection is available; a
\* failed second attempt is not retried; and on every path (success, failure,
\* retry success, retry failure) isGeneratingVideo is false when the handler
\* finishes.
C22_SingleRetry ==
    /\ [](\A i \in 1..MaxVideoRuns :
            /\ videoRuns[i].calls <= 2
            /\ videoRuns[i].calls = 2 =>
                   /\ videoRuns[i].firstError = "notFound"
                   /\ "openSelectKey" \in aistudio
            /\ videoRuns[i].pc = "retrying" => videoRuns[i].calls = 2)
    /\ [][\A i \in 1..MaxVideoRuns :
            ( /\ videoRuns[i].pc # "done"
              /\ videoRuns'[i].pc = "done"
              /\ videoRuns'[i].outcome \in GenerationOutcomes )
            => ~isGeneratingVideo' ]_vars

C22_Witness ==
    \E i \in 1..MaxVideoRuns :
        /\ videoRuns[i].pc = "done" /\ videoRuns[i].outcome = "retryFailure"
        /\ videoRuns[i].calls = 2 /\ videoRuns[i].firstError = "notFound"
        /\ ~isGeneratingVideo

(***************************************************************************)
(* generateBatchAssets and App: handleBatchGenerate                        *)
(***************************************************************************)
\* the batch button is rendered for a reply with more than one prompt
MaxPrompts == 3

\* the asset library holds at most this many urls in the model
MaxAssets == 4

Labels == {"A", "B"}

\* the url editProductImage resolves with for the item (never empty: it
\* throws "No image generated." otherwise)
ImageUrl(item) == <<"image", item.id>>

EmptyUrl == << >>

\* a variant of the map callback that lets the error of a failed item through
ItemPromiseRethrow(item, outcome) ==
    IF outcome = "ok"
    THEN [state |-> "fulfilled",
          value |-> [id |-> item.id, label |-> item.label,
                     url |-> ImageUrl(item), success |-> TRUE]]
    ELSE [state |-> "rejected"]

\* prompts.map(async (item) => { try { ... } catch { ... } }): the promise of
\* one item, once editProductImage has settled with outcome
ItemPromise(item, outcome) ==
    IF outcome = "ok"
    THEN [state |-> "fulfilled",
          value |-> [id |-> item.id, label |-> item.label,
                     url |-> ImageUrl(item), success |-> TRUE]]
    ELSE [state |-> "fulfilled",
          value |-> [id |-> item.id, label |-> item.label,
                     url |-> EmptyUrl, success |-> FALSE]]

\* Promise.all over settled promises: rejected if one is, else the values in
\* the order of the promises
PromiseAll(promises) ==
    IF \E k \in 1..Len(promises) : promises[k].state = "rejected"
    THEN [state |-> "rejected"]
    ELSE [state |-> "fulfilled",
          value |-> [k \in 1..Len(promises) |-> promises[k].value]]

\* generateBatchAssets(base64Image, mimeType, prompts), outcomes[k] being how
\* editProductImage settled for the k-th prompt
generateBatchAssets(prompts, outcomes) ==
    PromiseAll([k \in 1..Len(prompts) |-> ItemPromise(prompts[k], outcomes[k])])

IsSuccess(r) == r.success

\* results.filter(r => r.success).map(r => ({ id, label, url }))
successfulImages(batchResults) ==
    LET kept == SelectSeq(batchResults, IsSuccess)
    IN  [j \in 1..Len(kept) |->
            [id |-> kept[j].id, label |-> kept[j].label, url |-> kept[j].url]]

\* successfulImages.map(s => s.url)
newUrls(images) == [j \in 1..Len(images) |-> images[j].url]

BatchFrame ==
    /\ UNCHANGED <<sessionVars, videoVars, chatVars>>
    /\ UNCHANGED <<currentMarket, contextData, calcVars>>

\* handleBatchGenerate(prompts) up to its await, called from the chat's batch
\* button; the i-th invocation gives its prompts the ids <<i, 1>>, <<i, 2>>, ...
StartBatch(i, labels) ==
    /\ ~pendingEffect
    /\ activeMode = "LIVE_AGENT"
    /\ selectedImage # NoImage
    /\ batchRuns[i].pc \in {"idle", "done"}
    /\ Len(assets) + Len(labels) <= MaxAssets
    /\ activeMode' = "IMAGE_EDIT"
    /\ isBatchGenerating' = TRUE
    /\ batchImages' = << >>
    /\ batchRuns' = [batchRuns EXCEPT ![i] =
          [pc |-> "running",
           prompts |-> [k \in 1..Len(labels) |-> [id |-> <<i, k>>, label |-> labels[k]]],
           outcomes |-> [k \in 1..Len(labels) |-> "pending"],
           settled |-> [state |-> "pending"]]]
    /\ UNCHANGED assets
    /\ BatchFrame

\* editProductImage settles for the k-th prompt of the i-th invocation
ItemSettles(i, k, outcome) ==
    /\ batchRuns[i].pc = "running"
    /\ k \in 1..Len(batchRuns[i].prompts)
    /\ batchRuns[i].outcomes[k] = "pending"
    /\ batchRuns' = [batchRuns EXCEPT ![i].outcomes[k] = outcome]
    /\ UNCHANGED <<activeMode, isBatchGenerating, batchImages, assets>>
    /\ BatchFrame

\* await generateBatchAssets(...) settles and handleBatchGenerate finishes
BatchSettles(i) ==
    /\ ~pendingEffect
    /\ batchRuns[i].pc = "running"
    /\ \A k \in 1..Len(batchRuns[i].prompts) : batchRuns[i].outcomes[k] # "pending"
    /\ LET settled == generateBatchAssets(batchRuns[i].prompts, batchRuns[i].outcomes)
       IN  /\ batchRuns' = [batchRuns EXCEPT ![i].pc = "done", ![i].settled = settled]
           /\ IF settled.state = "fulfilled"
              THEN /\ batchImages' = successfulImages(settled.value)
                   /\ assets' = assets \o newUrls(successfulImages(settled.value))
              ELSE UNCHANGED <<batchImages, assets>>
    /\ isBatchGenerating' = FALSE
    /\ UNCHANGED activeMode
    /\ BatchFrame

\* the prompt lists the batch button can hand over
PromptLabels == UNION {[1..n -> Labels] : n \in 2..MaxPrompts}

NextBatch ==
    \/ \E img \in Images : SelectImage(img)
    \/ \E mode \in {"ANALYSIS", "LIVE_AGENT"} : SetActiveMode(mode)
    \/ \E i \in 1..MaxBatchRuns :
          \/ \E labels \in PromptLabels : StartBatch(i, labels)
          \/ \E k \in 1..MaxPrompts, o \in {"ok", "failed"} : ItemSettles(i, k, o)
          \/ BatchSettles(i)

SpecBatch == Init /\ [][NextBatch]_vars

\* the number of prompts of run r that were generated successfully
OkCount(r) == Cardinality({k \in 1..Len(r.prompts) : r.outcomes[k] = "ok"})

\* C23: generateBatchAssets resolves with exactly one result per input
\* prompt, in input order, with the prompt's id and label, and never rejects
\* because an image generation failed (a failed item has success = false and
\* an empty url); handleBatchGenerate then puts into batchImages, and appends
\* to the asset library, exactly the successful items and no failed one.
C23_BatchResults ==
    /\ [](\A i \in 1..MaxBatchRuns :
            batchRuns[i].pc = "done" =>
                LET r == batchRuns[i]
                IN  /\ r.settled.state = "fulfilled"
                    /\ Len(r.settled.value) = Len(r.prompts)
                    /\ \A k \in 1..Len(r.prompts) :
                          /\ r.settled.value[k].id = r.prompts[k].id
                          /\ r.settled.value[k].label = r.prompts[k].label
                          /\ r.settled.value[k].success = (r.outcomes[k] = "ok")
                          /\ r.outcomes[k] = "failed" =>
                                 r.settled.value[k].url = EmptyUrl)
    /\ [][\A i \in 1..MaxBatchRuns :
            (batchRuns[i].pc = "running" /\ batchRuns'[i].pc = "done") =>
                LET r == batchRuns'[i]
                IN  /\ Len(batchImages') = OkCount(r)
                    /\ \A k \in 1..Len(r.prompts) :
                          (r.outcomes[k] = "ok") <=>
                              \E j \in 1..Len(batchImages') :
                                  /\ batchImages'[j].id = r.prompts[k].id
                                  /\ batchImages'[j].label = r.prompts[k].label
                                  /\ batchImages'[j].url = ImageUrl(r.prompts[k])
                    /\ assets' = assets \o [j \in 1..Len(batchImages') |->
                                                batchImages'[j].url] ]_vars

C23_Witness ==
    \E i \in 1..MaxBatchRuns :
        /\ batchRuns[i].pc = "done"
        /\ Len(batchRuns[i].prompts) = 3
        /\ batchRuns[i].outcomes = <<"ok", "failed", "ok">>
        /\ Len(batchImages) = 2
        /\ batchImages[2].id = batchRuns[i].prompts[3].id
        /\ ~isBatchGenerating

(***************************************************************************)
(* LiveAgent: handleSend and the streamed reply                            *)
(***************************************************************************)
\* the chunks with text one reply stream delivers at most in the model
MaxChunks == 2

\* a list element created as message what of send k, holding that content
Message(role, what, k) == [role |-> role, made |-> <<what, k>>, shows |-> <<what, k>>]

ChatFrame ==
    /\ UNCHANGED <<activeMode, currentMarket, contextData, calcVars, appVars>>

\* handleSend up to its await.  The send button and the suggestion chips are
\* disabled while isTyping; the Enter key handler of the textarea is not.
Send(k, via) ==
    /\ ~pendingEffect
    /\ activeMode = "LIVE_AGENT"
    /\ sends[k].pc = "idle"
    /\ via \in {"button", "chip"} => ~isTyping
    /\ messages' = Append(messages, Message("user", "user", k))
    /\ isTyping' = TRUE
    /\ sends' = [sends EXCEPT ![k].pc = "awaiting"]
    /\ ChatFrame

\* await sendMessageStream(...) resolves:
\* setMessages(prev => [...prev, { role: 'model', text: '' }])
StreamOpens(k) ==
    /\ sends[k].pc = "awaiting"
    /\ messages' = Append(messages, Message("model", "reply", k))
    /\ sends' = [sends EXCEPT ![k].pc = "streaming"]
    /\ UNCHANGED isTyping
    /\ ChatFrame

\* a chunk with text arrives: the last element of the list is replaced by
\* { role: 'model', text: fullResponse }
Chunk(k) ==
    /\ sends[k].pc = "streaming"
    /\ sends[k].chunks < MaxChunks
    /\ messages' = [messages EXCEPT ![Len(messages)] =
                        [role |-> "model", made |-> @.made, shows |-> <<"reply", k>>]]
    /\ sends' = [sends EXCEPT ![k].chunks = @ + 1]
    /\ UNCHANGED isTyping
    /\ ChatFrame

\* the stream ends: finally setIsTyping(false)
StreamEnds(k) ==
    /\ sends[k].pc = "streaming"
    /\ isTyping' = FALSE
    /\ sends' = [sends EXCEPT ![k].pc = "done"]
    /\ UNCHANGED messages
    /\ ChatFrame

\* sendMessageStream or the stream throws: the apology is appended, finally
\* setIsTyping(false)
SendFails(k) ==
    /\ sends[k].pc \in {"awaiting", "streaming"}
    /\ messages' = Append(messages, Message("model", "error", k))
    /\ isTyping' = FALSE
    /\ sends' = [sends EXCEPT ![k].pc = "done"]
    /\ ChatFrame

NextChat ==
    \/ \E mode \in {"ANALYSIS", "LIVE_AGENT"} : SetActiveMode(mode)
    \/ \E m \in SwitcherMarkets : SetCurrentMarket(m)
    \/ \E d \in AnalysisDataValues : SetAnalysisResult(d)
    \/ \E k \in 1..MaxSends :
          \/ \E via \in {"button", "chip", "enter"} : Send(k, via)
          \/ StreamOpens(k)
          \/ Chunk(k)
          \/ StreamEnds(k)
          \/ SendFails(k)

SpecChat == Init /\ [][NextChat]_vars

\* C25: streamed reply chunks only ever modify the model message appended
\* for the send that produced them; under any interleaving of sends and chat
\* resets a chunk never overwrites the greeting, a user message or the reply
\* of another send: every element of the list holds the content of the
\* message it was created as.
C25_ChunksOnlyInOwnReply ==
    \A j \in 1..Len(messages) : messages[j].shows = messages[j].made

====
